---- MODULE Spec2Model ----
(***************************************************************************)
(* Model of palindrome_app.py: the palindrome checks, the palindromic      *)
(* substring finder and the palindrome generators.  A string is a sequence *)
(* of characters, a character is a one-element name.  Every function of    *)
(* the module is an operator computed the way the Python code computes it; *)
(* one action per function applies it to an argument drawn from a bounded  *)
(* set and records the value returned.                                     *)
(***************************************************************************)
EXTENDS Integers, Sequences, FiniteSets

VARIABLES op, text, min_length, ignore_case, ignore_spaces, number, result

vars == <<op, text, min_length, ignore_case, ignore_spaces, number, result>>

(* ---------------------------------------------------------------- bounds *)

\* longest argument string drawn from the alphabet
MaxLen == 4
\* largest min_length passed to find_palindromes
MaxK == 3
\* integers passed to is_number_palindrome range over -MaxNum..MaxNum
MaxNum == 125

(* ------------------------------------------------------------ characters *)

\* "U0130" is LATIN CAPITAL LETTER I WITH DOT ABOVE, the one character whose
\* str.lower() is two characters: "i" followed by "U0307", COMBINING DOT ABOVE.
AsciiLower == {"a", "b", "e", "h", "i", "l", "o"}
AsciiUpper == {"A", "B"}
AsciiDigit == {"0", "1", "2", "3", "4", "5", "6", "7", "8", "9"}

\* the character class [a-zA-Z0-9] of the regular expression of is_palindrome
AsciiAlnum == AsciiLower \cup AsciiUpper \cup AsciiDigit

\* the characters c with c.isalnum(): Unicode letters and digits
UnicodeAlnum == AsciiAlnum \cup {"U0130"}

\* str.lower() of one character, as a string
lower_char(c) ==
    CASE c = "A" -> <<"a">>
      [] c = "B" -> <<"b">>
      [] c = "U0130" -> <<"i", "U0307">>
      [] OTHER -> <<c>>

(* ------------------------------------------------------ string primitives *)

RECURSIVE lower(_)
\* s.lower()
lower(s) == IF s = <<>> THEN <<>> ELSE lower_char(Head(s)) \o lower(Tail(s))

\* s[::-1]
reversed(s) == [x \in 1..Len(s) |-> s[Len(s) + 1 - x]]

\* s[i:j] for 0 <= i and 0 <= j: both ends are clamped to len(s)
slice(s, i, j) ==
    LET hi == IF j > Len(s) THEN Len(s) ELSE j
    IN  IF i >= hi THEN <<>> ELSE [x \in 1..(hi - i) |-> s[i + x]]

\* a plausible slip: the start -2 of a one-character word wraps to the last
\* character instead of being clamped to "before the first"
slice_from_minus2_reversed_wrap(word) ==
    IF Len(word) = 0 THEN <<>>
    ELSE IF Len(word) = 1 THEN word
    ELSE [x \in 1..(Len(word) - 1) |-> word[Len(word) - x]]

\* word[-2::-1]: start is len-2, clamped to -1 (nothing) when negative, and
\* the slice runs from there down to index 0
slice_from_minus2_reversed(word) ==
    LET start == IF Len(word) - 2 < 0 THEN -1 ELSE Len(word) - 2
    IN  [x \in 1..(start + 1) |-> word[start + 2 - x]]

\* re.sub(r'[^a-zA-Z0-9]', '', s)
IsAsciiAlnum(c) == c \in AsciiAlnum
re_sub_non_alnum(s) == SelectSeq(s, IsAsciiAlnum)

\* s.isalnum(): non-empty and every character alphanumeric
isalnum(s) == Len(s) > 0 /\ \A x \in 1..Len(s) : s[x] \in UnicodeAlnum

DigitChars == <<"0", "1", "2", "3", "4", "5", "6", "7", "8", "9">>

RECURSIVE NatToStr(_)
NatToStr(n) ==
    IF n < 10 THEN <<DigitChars[n + 1]>>
    ELSE NatToStr(n \div 10) \o <<DigitChars[(n % 10) + 1]>>

\* a plausible slip: the sign is dropped before the comparison
python_str_abs(x) ==
    IF x.tag = "int"
    THEN (IF x.val < 0 THEN NatToStr(0 - x.val) ELSE NatToStr(x.val))
    ELSE x.val

\* str(number): the decimal string of an int, a str unchanged
python_str(x) ==
    IF x.tag = "int"
    THEN (IF x.val < 0 THEN <<"-">> \o NatToStr(0 - x.val) ELSE NatToStr(x.val))
    ELSE x.val

(* ------------------------------------------------------------- functions *)

\* a plausible slip: no emptiness test at all
is_palindrome_no_guard(t, ic, isp) ==
    LET p1 == IF isp THEN re_sub_non_alnum(t) ELSE t
        p2 == IF ic THEN lower(p1) ELSE p1
    IN  p2 = reversed(p2)

\* a plausible slip: case is folded before the stripping
is_palindrome_lower_first(t, ic, isp) ==
    IF t = <<>> THEN FALSE
    ELSE LET p1 == IF ic THEN lower(t) ELSE t
             p2 == IF isp THEN re_sub_non_alnum(p1) ELSE p1
         IN  p2 = reversed(p2)

\* a plausible slip: the emptiness test is made on the processed text
is_palindrome_guard_after(t, ic, isp) ==
    LET p1 == IF isp THEN re_sub_non_alnum(t) ELSE t
        p2 == IF ic THEN lower(p1) ELSE p1
    IN  IF p2 = <<>> THEN FALSE ELSE p2 = reversed(p2)

is_palindrome(t, ic, isp) ==
    IF t = <<>> THEN FALSE
    ELSE LET p1 == IF isp THEN re_sub_non_alnum(t) ELSE t
             p2 == IF ic THEN lower(p1) ELSE p1
         IN  p2 = reversed(p2)

is_number_palindrome(x) ==
    LET num_str == python_str(x)
    IN  num_str = reversed(num_str)

\* a plausible slip: no emptiness test
is_strict_palindrome_no_guard(t) == t = reversed(t)

\* a plausible slip: the comparison folds case
is_strict_palindrome_folded(t) ==
    IF t = <<>> THEN FALSE ELSE lower(t) = reversed(lower(t))

is_strict_palindrome(t) ==
    IF t = <<>> THEN FALSE ELSE t = reversed(t)

find_palindromes(t, k) ==
    IF t = <<>> \/ Len(t) < k THEN {}
    ELSE LET text_lower == lower(t)
             n == Len(text_lower)
             hits == {p \in (0..(n - 1)) \X (0..n) :
                        /\ p[2] >= p[1] + k
                        /\ isalnum(slice(text_lower, p[1], p[2]))
                        /\ slice(text_lower, p[1], p[2])
                             = reversed(slice(text_lower, p[1], p[2]))}
         IN  {slice(t, p[1], p[2]) : p \in hits}

\* a plausible slip: the word is appended to itself unreversed
generate_palindrome_doubled(word) ==
    IF word = <<>> THEN <<>> ELSE word \o word

generate_palindrome(word) ==
    IF word = <<>> THEN <<>> ELSE word \o slice_from_minus2_reversed(word)

generate_palindrome_symmetric(word) ==
    IF word = <<>> THEN <<>>
    ELSE IF Len(word) > 1 THEN word \o slice_from_minus2_reversed(word)
    ELSE word

(* ---------------------------------------------------------------- inputs *)

Alphabet == {"a", "b", "A", "1", " ", "U0130"}
NumAlphabet == {"0", "1", "-"}

Seqs(S, n) == UNION {[1..m -> S] : m \in 0..n}

hello == <<"h", "e", "l", "l", "o">>

\* the strings a caller passes: every string over Alphabet of at most MaxLen
\* characters, and the first word of the demonstration
Texts == Seqs(Alphabet, MaxLen) \cup {hello}

Numbers == [tag : {"int"}, val : (0 - MaxNum)..MaxNum]
             \cup [tag : {"str"}, val : Seqs(NumAlphabet, MaxLen)]

(* ----------------------------------------------------------- the machine *)

Init ==
    /\ op = "idle"
    /\ text = <<>>
    /\ min_length = 3
    /\ ignore_case = TRUE
    /\ ignore_spaces = TRUE
    /\ number = [tag |-> "int", val |-> 0]
    /\ result = FALSE

CallIsPalindrome ==
    /\ op = "idle"
    /\ \E t \in Texts, ic \in BOOLEAN, isp \in BOOLEAN :
          /\ text' = t
          /\ ignore_case' = ic
          /\ ignore_spaces' = isp
          /\ result' = is_palindrome(t, ic, isp)
    /\ op' = "is_palindrome"
    /\ UNCHANGED <<min_length, number>>

CallIsNumberPalindrome ==
    /\ op = "idle"
    /\ \E x \in Numbers :
          /\ number' = x
          /\ result' = is_number_palindrome(x)
    /\ op' = "is_number_palindrome"
    /\ UNCHANGED <<text, min_length, ignore_case, ignore_spaces>>

CallIsStrictPalindrome ==
    /\ op = "idle"
    /\ \E t \in Texts :
          /\ text' = t
          /\ result' = is_strict_palindrome(t)
    /\ op' = "is_strict_palindrome"
    /\ UNCHANGED <<min_length, ignore_case, ignore_spaces, number>>

CallFindPalindromes ==
    /\ op = "idle"
    /\ \E t \in Texts, k \in 1..MaxK :
          /\ text' = t
          /\ min_length' = k
          /\ result' = find_palindromes(t, k)
    /\ op' = "find_palindromes"
    /\ UNCHANGED <<ignore_case, ignore_spaces, number>>

CallGeneratePalindrome ==
    /\ op = "idle"
    /\ \E t \in Texts :
          /\ text' = t
          /\ result' = generate_palindrome(t)
    /\ op' = "generate_palindrome"
    /\ UNCHANGED <<min_length, ignore_case, ignore_spaces, number>>

CallGeneratePalindromeSymmetric ==
    /\ op = "idle"
    /\ \E t \in Texts :
          /\ text' = t
          /\ result' = generate_palindrome_symmetric(t)
    /\ op' = "generate_palindrome_symmetric"
    /\ UNCHANGED <<min_length, ignore_case, ignore_spaces, number>>

Next ==
    \/ CallIsPalindrome
    \/ CallIsNumberPalindrome
    \/ CallIsStrictPalindrome
    \/ CallFindPalindromes
    \/ CallGeneratePalindrome
    \/ CallGeneratePalindromeSymmetric

Spec == Init /\ [][Next]_vars

(* ------------------------------------------------------------ properties *)

\* s reads the same in both directions, character for character
IsMirror(s) == \A x \in 1..Len(s) : s[x] = s[Len(s) + 1 - x]

\* every slice t[i:j] of t with j - i >= k, as a pair of indices
SlicePairs(t, k) ==
    {p \in (0..Len(t)) \X (0..Len(t)) : p[2] - p[1] >= k}

\* the set the contract of the substring finder describes
PalindromicSlices(t, k) ==
    {slice(t, p[1], p[2]) : p \in
        {q \in SlicePairs(t, k) :
            /\ isalnum(lower(slice(t, q[1], q[2])))
            /\ IsMirror(lower(slice(t, q[1], q[2])))}}

\* C1: for every text t and minimum length k >= 1, find_palindromes(t, k) is
\* exactly the set of original-case slices t[i:j] with j - i >= k whose
\* lower-cased form is alphanumeric and equals its own reversal; so every
\* element returned has length >= k and is alphanumeric, and the result is
\* empty when t is empty or shorter than k.
C1_FindPalindromesContract ==
    (op = "find_palindromes" /\ min_length >= 1) =>
        /\ result = PalindromicSlices(text, min_length)
        /\ \A s \in result : Len(s) >= min_length /\ isalnum(s)
        /\ (text = <<>> \/ Len(text) < min_length) => result = {}

\* C2: generate_palindrome("hello") returns "helloolleh".
C2_HelloExample ==
    (op = "generate_palindrome" /\ text = hello) =>
        result = <<"h", "e", "l", "l", "o", "o", "l", "l", "e", "h">>

\* C3: for every non-empty word w, is_strict_palindrome(generate_palindrome(w))
\* is true.
C3_GeneratedIsStrictPalindrome ==
    (op = "generate_palindrome" /\ text # <<>>) =>
        is_strict_palindrome(result) = TRUE

C3_Witness ==
    /\ op = "generate_palindrome"
    /\ text = <<"a", "b", "A">>
    /\ result = <<"a", "b", "A", "b", "a">>

\* C4 as stated: for any word, the empty word included,
\* is_strict_palindrome(generate_palindrome(word)) is true.
C4_AnyWordStrictPalindrome ==
    op = "generate_palindrome" => is_strict_palindrome(result) = TRUE

\* C4 as amended: for any word the output of generate_palindrome reads the
\* same in both directions, and is_strict_palindrome of that output is true
\* exactly when the word is not empty (the empty word gives the empty output,
\* which the strict check rejects).
C4_GeneratedMirrorStrictIffNonEmpty ==
    op = "generate_palindrome" =>
        /\ IsMirror(result)
        /\ is_strict_palindrome(result) = (text # <<>>)

C4_Witness ==
    /\ op = "generate_palindrome"
    /\ text = <<>>
    /\ result = <<>>
    /\ is_strict_palindrome(result) = FALSE

\* C5 as stated: on the empty string each of the three checks returns false,
\* generate_palindrome returns the empty string and find_palindromes returns
\* the empty set.
C5_EmptyInputDefaults ==
    /\ (op = "is_palindrome" /\ text = <<>>) => result = FALSE
    /\ (op = "is_strict_palindrome" /\ text = <<>>) => result = FALSE
    /\ (op = "is_number_palindrome" /\ number.tag = "str" /\ number.val = <<>>)
          => result = FALSE
    /\ (op = "generate_palindrome" /\ text = <<>>) => result = <<>>
    /\ (op = "generate_palindrome_symmetric" /\ text = <<>>) => result = <<>>
    /\ (op = "find_palindromes" /\ text = <<>>) => result = {}

\* C5 as amended: on the empty string is_palindrome and is_strict_palindrome
\* return false, is_number_palindrome returns true (the empty string equals its
\* reversal), the generators return the empty string and find_palindromes
\* returns the empty set.
C5_EmptyInputResults ==
    /\ (op = "is_palindrome" /\ text = <<>>) => result = FALSE
    /\ (op = "is_strict_palindrome" /\ text = <<>>) => result = FALSE
    /\ (op = "is_number_palindrome" /\ number.tag = "str" /\ number.val = <<>>)
          => result = TRUE
    /\ (op = "generate_palindrome" /\ text = <<>>) => result = <<>>
    /\ (op = "generate_palindrome_symmetric" /\ text = <<>>) => result = <<>>
    /\ (op = "find_palindromes" /\ text = <<>>) => result = {}

C5_Witness ==
    /\ op = "is_number_palindrome"
    /\ number = [tag |-> "str", val |-> <<>>]
    /\ result = TRUE

\* the normalization the contract of is_palindrome describes: strip the
\* characters that are no ASCII letter or digit (when asked), then lower-case
\* (when asked)
Normalized(t, ic, isp) ==
    LET stripped == IF isp THEN SelectSeq(t, LAMBDA c : c \in AsciiAlnum) ELSE t
    IN  IF ic THEN lower(stripped) ELSE stripped

\* C6: is_palindrome(text, ignore_case, ignore_spaces) is false when text is
\* empty, and otherwise true exactly when the normalized text equals its own
\* reversal, the normalization stripping first and lower-casing second.
C6_IsPalindromeContract ==
    op = "is_palindrome" =>
        result = (/\ text # <<>>
                  /\ IsMirror(Normalized(text, ignore_case, ignore_spaces)))

\* the strip-then-fold order decides this case: stripping removes U0130, while
\* folding first would leave its "i" behind
C6_Witness ==
    /\ op = "is_palindrome"
    /\ text = <<"U0130", "a">>
    /\ ignore_case /\ ignore_spaces
    /\ result = TRUE

\* C7: generate_palindrome_symmetric(word) returns the same string as
\* generate_palindrome(word) for every word, and for words of length 0 and 1
\* both return the word unchanged.
C7_SymmetricEqualsBase ==
    /\ op = "generate_palindrome_symmetric" =>
          /\ result = generate_palindrome(text)
          /\ Len(text) <= 1 => result = text
    /\ op = "generate_palindrome" =>
          /\ result = generate_palindrome_symmetric(text)
          /\ Len(text) <= 1 => result = text

C7_Witness ==
    /\ op = "generate_palindrome"
    /\ text = <<"a">>
    /\ result = <<"a">>

RECURSIVE ReverseDigits(_, _)
\* the number whose decimal digits are those of n in reverse, onto acc
ReverseDigits(n, acc) ==
    IF n = 0 THEN acc ELSE ReverseDigits(n \div 10, acc * 10 + (n % 10))

\* C8: for an integer n, is_number_palindrome(n) is true exactly when the
\* decimal string of n, minus sign included, equals its reversal: false for
\* every negative n, true for 0..9, and for n >= 0 true exactly when the
\* digits of n reversed give n; for a string the result is the character
\* comparison of the string with its reversal, leading zeros significant.
C8_NumberPalindromeContract ==
    op = "is_number_palindrome" =>
        /\ (number.tag = "int" /\ number.val < 0) => result = FALSE
        /\ (number.tag = "int" /\ number.val >= 0) =>
              result = (ReverseDigits(number.val, 0) = number.val)
        /\ (number.tag = "int" /\ number.val \in 0..9) => result = TRUE
        /\ number.tag = "str" => result = IsMirror(number.val)

C8_Witness ==
    /\ op = "is_number_palindrome"
    /\ number = [tag |-> "int", val |-> 0 - 121]
    /\ result = FALSE

C10_NonEmptyStrippedToEmptyIsTrue ==
    op = "is_palindrome" =>
        /\ (/\ text # <<>>
            /\ ignore_spaces
            /\ \A x \in 1..Len(text) : text[x] \notin AsciiAlnum)
              => result = TRUE
        /\ text = <<>> => result = FALSE

C10_Witness ==
    /\ op = "is_palindrome"
    /\ text = <<" ", "U0130", " ">>
    /\ ignore_spaces
    /\ ~ignore_case
    /\ result = TRUE

====
